---- MODULE Spec2Model ----
(***************************************************************************)
(* Model of gafetes-v2: the QR acquisition of qrs.py (download_qr_from_url, *)
(* get_qr_image, the worker pool of prefetch_qrs, clean_cache), the sheet  *)
(* ingestion of excel.py and the batch loop of cli.py.                     *)
(* Strings are sequences of one-character strings, so that the key and URL *)
(* derivation of get_qr_image is computed as the code computes it.         *)
(***************************************************************************)
EXTENDS Integers, Sequences, FiniteSets, TLC

VARIABLES
  qrs_dir,   \* the cache directory on disk
  call,      \* the get_qr_image call of the sequential caller
  args,      \* prefetch_qrs: strategy, allow_fallback, workers and progress
  codes,     \* prefetch_qrs: the list of identifiers
  task,      \* prefetch_qrs: the fetch_single task of each list position
  results,   \* prefetch_qrs: the results dictionary
  report,    \* prefetch_qrs: the counts computed after completion
  parsed,    \* parse_boolean: the value handed in and what came out
  checked,   \* validate_row: the row handed in and what came out
  ingest,    \* read_attendees: the sheet, the row reached and the two lists
  proc,      \* process_attendees: arguments, position in the loop, statistics
  purge      \* clean_cache: the clock, the file times and the runs made

vars == <<qrs_dir, call, args, codes, task, results, report,
          parsed, checked, ingest, proc, purge>>

\* the state of excel.py, cli.py and clean_cache
other == <<parsed, checked, ingest, proc, purge>>

\* the state of prefetch_qrs
prefetch == <<args, codes, task, results, report>>

(***************************************************************************)
(* Bounds of the model.                                                    *)
(***************************************************************************)
\* number of distinct bodies the server may answer with for one URL
MaxVer == 2
\* length of the list handed to prefetch_qrs
MaxCodes == 2

(***************************************************************************)
(* Program constants (qrs.py:20-23).                                       *)
(***************************************************************************)
MAX_RETRIES == 2

\* QR_BASE_URL up to the {codigo} placeholder; the placeholder is followed by "/"
QR_BASE_URL_HEAD ==
  <<"h","t","t","p","s",":","/","/","e","v","e","n","t","o","-","d","i","r","e","c","t","o","r","e","s",".","q","u","a","l","i","t","a","s","e","v","e","n","t","o","s",".","m","x","/","d","o","w","n","l","o","a","d","Q","r","/">>

QR_BASE_URL(codigo) == QR_BASE_URL_HEAD \o codigo \o <<"/">>

HTTP == <<"h","t","t","p",":","/","/">>
HTTPS == <<"h","t","t","p","s",":","/","/">>
DOWNLOAD_QR == <<"/","d","o","w","n","l","o","a","d","Q","r","/">>
PNG_EXT == <<".","p","n","g">>
LOCAL_SUFFIX == <<"_","l","o","c","a","l">>
LOCAL_PNG == LOCAL_SUFFIX \o PNG_EXT

(***************************************************************************)
(* Python string methods used by get_qr_image.                             *)
(***************************************************************************)
\* s.startswith(p)
StartsWith(s, p) == Len(s) >= Len(p) /\ SubSeq(s, 1, Len(p)) = p

\* s.endswith(p)
EndsWith(s, p) == Len(s) >= Len(p) /\ SubSeq(s, Len(s) - Len(p) + 1, Len(s)) = p

\* the positions at which sub occurs in s
Occurrences(s, sub) ==
  {i \in 1..(Len(s) - Len(sub) + 1) : SubSeq(s, i, i + Len(sub) - 1) = sub}

\* sub in s
Contains(s, sub) == Occurrences(s, sub) # {}

\* s.split(sep)[-1]: what follows the last occurrence of sep (s itself if none)
SplitLast(s, sep) ==
  IF ~Contains(s, sep) THEN s
  ELSE LET i == CHOOSE j \in Occurrences(s, sep) : \A k \in Occurrences(s, sep) : k <= j
       IN SubSeq(s, i + Len(sep), Len(s))

\* s.rstrip(ch)
RECURSIVE RStrip(_, _)
RStrip(s, ch) ==
  IF Len(s) > 0 /\ s[Len(s)] = ch THEN RStrip(SubSeq(s, 1, Len(s) - 1), ch) ELSE s

\* s.replace(ch, rep) for a one-character ch
RECURSIVE Replace(_, _, _)
Replace(s, ch, rep) ==
  IF s = <<>> THEN <<>>
  ELSE (IF Head(s) = ch THEN rep ELSE <<Head(s)>>) \o Replace(Tail(s), ch, rep)

(***************************************************************************)
(* Identifiers handed to get_qr_image: bare codes, URLs and a path.        *)
(***************************************************************************)
IdA == <<"A">>
IdALocal == <<"A","_","l","o","c","a","l">>
IdUrlA == <<"h","t","t","p","s",":","/","/","x","/","d","o","w","n","l","o","a","d","Q","r","/","A","/">>
IdSlash == <<"a","/","b">>
IdFile == <<"f",".","p","n","g">>

Idents == {IdA, IdALocal, IdUrlA, IdSlash, IdFile}

Strategies == {"download", "cache"}

(***************************************************************************)
(* Byte strings.  Every value is a record of the same shape: where the     *)
(* bytes come from, what they encode, and which body of the server.        *)
(***************************************************************************)
\* Python None
None == [src |-> "none", data |-> <<>>, ver |-> 0]
\* b""
EmptyBytes == [src |-> "empty", data |-> <<>>, ver |-> 0]
\* body number v > 0 served for url
ServerBytes(url, v) == [src |-> "server", data |-> url, ver |-> v]
\* the content of a file outside the cache directory
FileBytes(path) == [src |-> "file", data |-> path, ver |-> 0]

\* truth value of a bytes-or-None object
Truthy(b) == b # None /\ b # EmptyBytes

\* files outside the cache directory: os.path.isfile(p) holds for these
LocalFiles == {IdFile}

\* generate_qr_local(data): the PNG of a QR code that encodes data
generate_qr_local(data) == [src |-> "generated", data |-> data, ver |-> 0]

(***************************************************************************)
(* The server, as seen by one requests.get: an exception or a response.    *)
(***************************************************************************)
\* requests.get raises Timeout or ConnectionError, or returns a response with a
\* status and a body (body 0 is the empty body).  300 stands for the 3xx
\* answers that requests hands back instead of following, 404 for the 4xx and
\* 5xx answers.
Outcomes ==
  {[exc |-> e, status |-> 0, body |-> 0] : e \in {"Timeout", "ConnectionError"}}
  \cup {[exc |-> "none", status |-> s, body |-> b] : s \in {200, 300}, b \in 0..MaxVer}
  \cup {[exc |-> "none", status |-> 404, body |-> 0]}

\* response.raise_for_status() raises HTTPError
RaisesForStatus(status) == 400 <= status /\ status < 600

\* response.content
Content(url, o) == IF o.body = 0 THEN EmptyBytes ELSE ServerBytes(url, o.body)

\* requests.get(...) followed by raise_for_status() raised nothing
AttemptOk(o) == o.exc = "none" /\ ~RaisesForStatus(o.status)

(***************************************************************************)
(* download_qr_from_url(url, retries): outs[i] is what the server does on  *)
(* attempt i.  Returns the bytes (or None), the outcomes it met and the    *)
(* sequence of requests and sleeps it made.                                *)
(***************************************************************************)
\* a loop that sleeps after every failed attempt, the last one included
RECURSIVE DownloadLoop_SleepAfterLast(_, _, _, _, _)
DownloadLoop_SleepAfterLast(url, outs, retries, attempt, trace) ==
  IF attempt >= retries
  THEN [content |-> None, met |-> SubSeq(outs, 1, attempt), trace |-> trace]
  ELSE LET o == outs[attempt + 1]
           requested == Append(trace, "request")
       IN IF o.exc = "none" /\ ~(400 <= o.status /\ o.status < 600)
          THEN [content |-> IF o.body = 0 THEN [src |-> "empty", data |-> <<>>, ver |-> 0]
                            ELSE [src |-> "server", data |-> url, ver |-> o.body],
                met |-> SubSeq(outs, 1, attempt + 1), trace |-> requested]
          ELSE DownloadLoop_SleepAfterLast(url, outs, retries, attempt + 1,
                                           Append(requested, "sleep"))

RECURSIVE DownloadLoop(_, _, _, _, _)
DownloadLoop(url, outs, retries, attempt, trace) ==
  IF attempt >= retries
  THEN [content |-> None, met |-> SubSeq(outs, 1, attempt), trace |-> trace]
  ELSE LET o == outs[attempt + 1]
           requested == Append(trace, "request")
       IN IF AttemptOk(o)
          THEN [content |-> Content(url, o), met |-> SubSeq(outs, 1, attempt + 1),
                trace |-> requested]
          ELSE DownloadLoop(url, outs, retries, attempt + 1,
                            IF attempt < retries - 1 THEN Append(requested, "sleep")
                            ELSE requested)

download_qr_from_url(url, outs) == DownloadLoop(url, outs, MAX_RETRIES, 0, <<>>)

(***************************************************************************)
(* The cache directory: whether it exists and the files in it, by name     *)
(* relative to the directory.                                              *)
(***************************************************************************)
NoFiles == [n \in {} |-> None]

\* os.path.exists(os.path.join(qrs_dir, name))
Exists(dir, name) == name \in DOMAIN dir.files

\* os.makedirs(qrs_dir, exist_ok=True)
makedirs(dir) == [dir EXCEPT !.exists = TRUE]

\* open(path, 'wb') raises: the name has a directory part, which nothing creates
OpenFails(dir, name) == ~dir.exists \/ Contains(name, "/")

\* the file after open(path, 'wb'): created or truncated
Truncate(dir, name) ==
  [dir EXCEPT !.files = [n \in DOMAIN dir.files \cup {name} |->
                           IF n = name THEN EmptyBytes ELSE dir.files[n]]]

\* the file after f.write(bytes) and the close of the with block
WriteBytes(dir, name, bytes) ==
  [dir EXCEPT !.files = [n \in DOMAIN dir.files \cup {name} |->
                           IF n = name THEN bytes ELSE dir.files[n]]]

(***************************************************************************)
(* get_qr_image, lines 126-134: the cache key and the resolution URL.      *)
(***************************************************************************)
IsUrl(id) == StartsWith(id, HTTP) \/ StartsWith(id, HTTPS)

Codigo(id) ==
  IF IsUrl(id)
  THEN IF Contains(id, DOWNLOAD_QR)
       THEN RStrip(SplitLast(id, DOWNLOAD_QR), "/")
       ELSE Replace(Replace(id, "/", <<"_">>), ":", <<>>)
  ELSE id

Url(id) == IF IsUrl(id) THEN id ELSE QR_BASE_URL(id)

\* a valid-tier name with the suffix of the generated images
ValidName_Local(codigo) == codigo \o LOCAL_PNG

\* f"{codigo}.png" and f"{codigo}_local.png", relative to qrs_dir
ValidName(codigo) == codigo \o PNG_EXT
FallbackName(codigo) == codigo \o LOCAL_PNG

\* a lookup that takes the fallback entry when there is one
FromCache_PrefersFallback(dir, codigo) ==
  IF Exists(dir, FallbackName(codigo)) THEN dir.files[FallbackName(codigo)]
  ELSE IF Exists(dir, ValidName(codigo)) /\ ~EndsWith(ValidName(codigo), LOCAL_PNG)
       THEN dir.files[ValidName(codigo)]
       ELSE None

\* a lookup that falls back on the fallback entry when the valid one is missing
FromCache_AnyTier(dir, codigo) ==
  IF Exists(dir, ValidName(codigo)) /\ ~EndsWith(ValidName(codigo), LOCAL_PNG)
  THEN dir.files[ValidName(codigo)]
  ELSE IF Exists(dir, FallbackName(codigo)) THEN dir.files[FallbackName(codigo)]
       ELSE None

\* lines 138-146: the bytes served from the cache for this key, None when the
\* call has to go to the server
FromCache(dir, codigo) ==
  LET cache_path == ValidName(codigo)
  IN IF Exists(dir, cache_path) /\ ~EndsWith(cache_path, LOCAL_PNG)
     THEN dir.files[cache_path]
     ELSE None

(***************************************************************************)
(* The outcome of one get_qr_image call.                                   *)
(***************************************************************************)
Returned(kind, bytes) == [kind |-> kind, content |-> bytes, error |-> "none"]
Raised(error) == [kind |-> "raised", content |-> None, error |-> error]

NoDownload == [content |-> None, met |-> <<>>, trace |-> <<>>]

\* a download that is never written to the cache
OnDownloaded_NoPersist(codigo, strategy, bytes, dir) ==
  [result |-> Returned("downloaded", bytes), dir |-> dir]

\* a download that is written to the cache under either strategy
OnDownloaded_AlwaysPersist(codigo, strategy, bytes, dir) ==
  IF OpenFails(dir, ValidName(codigo))
  THEN [result |-> Raised("OSError"), dir |-> dir]
  ELSE [result |-> Returned("downloaded", bytes),
        dir |-> WriteBytes(dir, ValidName(codigo), bytes)]

\* a download that removes the generated image of its key from the cache
OnDownloaded_DropsFallback(codigo, strategy, bytes, dir) ==
  IF strategy = "cache"
  THEN IF OpenFails(dir, ValidName(codigo))
       THEN [result |-> Raised("OSError"), dir |-> dir]
       ELSE [result |-> Returned("downloaded", bytes),
             dir |-> [dir EXCEPT !.files =
                        [n \in (DOMAIN dir.files \cup {ValidName(codigo)})
                                  \ {FallbackName(codigo)} |->
                           IF n = ValidName(codigo) THEN bytes ELSE dir.files[n]]]]
  ELSE [result |-> Returned("downloaded", bytes), dir |-> dir]

\* lines 151-160: the download gave bytes
OnDownloaded(codigo, strategy, bytes, dir) ==
  IF strategy = "cache"
  THEN IF OpenFails(dir, ValidName(codigo))
       THEN [result |-> Raised("OSError"), dir |-> dir]
       ELSE [result |-> Returned("downloaded", bytes),
             dir |-> WriteBytes(dir, ValidName(codigo), bytes)]
  ELSE [result |-> Returned("downloaded", bytes), dir |-> dir]

\* a fallback that does not look at allow_fallback
OnNoBytes_Ungated(id, codigo, strategy, allow_fallback, dir) ==
  IF strategy = "cache" /\ ~OpenFails(dir, FallbackName(codigo))
  THEN [result |-> Returned("generated", generate_qr_local(id)),
        dir |-> WriteBytes(dir, FallbackName(codigo), generate_qr_local(id))]
  ELSE IF strategy = "cache"
       THEN [result |-> Raised("OSError"), dir |-> dir]
       ELSE [result |-> Returned("generated", generate_qr_local(id)), dir |-> dir]

\* a fallback that is written to the valid-tier file
OnNoBytes_ValidTier(id, codigo, strategy, allow_fallback, dir) ==
  IF ~allow_fallback
  THEN [result |-> Raised("unreachable"), dir |-> dir]
  ELSE IF strategy = "cache"
       THEN IF OpenFails(dir, ValidName(codigo))
            THEN [result |-> Raised("OSError"), dir |-> dir]
            ELSE [result |-> Returned("generated", generate_qr_local(id)),
                  dir |-> WriteBytes(dir, ValidName(codigo), generate_qr_local(id))]
       ELSE [result |-> Returned("generated", generate_qr_local(id)), dir |-> dir]

\* lines 162-183: the download gave nothing
OnNoBytes(id, codigo, strategy, allow_fallback, dir) ==
  IF ~allow_fallback
  THEN [result |-> Raised("unreachable"), dir |-> dir]
  ELSE LET qr_buffer == generate_qr_local(id)
       IN IF strategy = "cache"
          THEN IF OpenFails(dir, FallbackName(codigo))
               THEN [result |-> Raised("OSError"), dir |-> dir]
               ELSE [result |-> Returned("generated", qr_buffer),
                     dir |-> WriteBytes(dir, FallbackName(codigo), qr_buffer)]
          ELSE [result |-> Returned("generated", qr_buffer), dir |-> dir]

\* get_qr_image(qr_code_or_path, strategy, qrs_dir, allow_fallback), with outs
\* what the server does on each attempt of this call
\* a resolution that prepares the cache directory before it looks at the
\* identifier
get_qr_image_DirFirst(id, strategy, allow_fallback, outs, dir) ==
  LET d1 == IF strategy = "cache" THEN makedirs(dir) ELSE dir
  IN IF id \in LocalFiles
     THEN [result |-> Returned("local-file", FileBytes(id)), dir |-> d1, dl |-> NoDownload]
     ELSE LET codigo == Codigo(id)
              url == Url(id)
              hit == IF strategy = "cache" THEN FromCache(d1, codigo) ELSE None
          IN IF hit # None
             THEN [result |-> Returned("cache", hit), dir |-> d1, dl |-> NoDownload]
             ELSE LET dl == download_qr_from_url(url, outs)
                      r == IF Truthy(dl.content)
                           THEN OnDownloaded(codigo, strategy, dl.content, d1)
                           ELSE OnNoBytes(id, codigo, strategy, allow_fallback, d1)
                  IN [result |-> r.result, dir |-> r.dir, dl |-> dl]

get_qr_image(id, strategy, allow_fallback, outs, dir) ==
  IF id \in LocalFiles
  THEN [result |-> Returned("local-file", FileBytes(id)), dir |-> dir, dl |-> NoDownload]
  ELSE LET codigo == Codigo(id)
           url == Url(id)
           d1 == IF strategy = "cache" THEN makedirs(dir) ELSE dir
           hit == IF strategy = "cache" THEN FromCache(d1, codigo) ELSE None
       IN IF hit # None
          THEN [result |-> Returned("cache", hit), dir |-> d1, dl |-> NoDownload]
          ELSE LET dl == download_qr_from_url(url, outs)
                   r == IF Truthy(dl.content)
                        THEN OnDownloaded(codigo, strategy, dl.content, d1)
                        ELSE OnNoBytes(id, codigo, strategy, allow_fallback, d1)
               IN [result |-> r.result, dir |-> r.dir, dl |-> dl]

(***************************************************************************)
(* Sequential use: a caller invokes get_qr_image, the call runs to its end *)
(* against whatever the server does meanwhile, then the next call starts.  *)
(* call keeps the arguments, the cache as it was at the invocation and,    *)
(* once the call has ended: how the server answered a first request at     *)
(* that time (server), the answers the call met, the requests and sleeps   *)
(* it made, what download_qr_from_url returned and what came out.          *)
(***************************************************************************)
NoDir == [exists |-> FALSE, files |-> NoFiles]

NoCall ==
  [op |-> "none", id |-> <<>>, strategy |-> "download", allow_fallback |-> FALSE,
   server |-> <<>>, met |-> <<>>, trace |-> <<>>, returned |-> None,
   result |-> Raised("none"), pre |-> NoDir]

NoArgs == [phase |-> "idle", strategy |-> "cache", allow_fallback |-> FALSE, workers |-> 0]

NoReport == [success |-> 0, failed |-> 0, logged |-> FALSE]

\* a Python value of a cell or of a dictionary entry: None (also what
\* row.get gives for an absent key), the NaN of an empty cell, a text, an
\* integer, a float with an integral value, a bool
PyNone == [t |-> "none", s |-> <<>>, n |-> 0]
NaN == [t |-> "nan", s |-> <<>>, n |-> 0]
Str(s) == [t |-> "str", s |-> s, n |-> 0]
PyInt(n) == [t |-> "int", s |-> <<>>, n |-> n]
PyFloat(n) == [t |-> "float", s |-> <<>>, n |-> n]
PyBool(b) == [t |-> "bool", s |-> <<>>, n |-> IF b THEN 1 ELSE 0]

\* excel.py, cli.py and clean_cache before any of their operations is called
NoParsed == [value |-> NaN, returned |-> FALSE, result |-> FALSE]
NoChecked == [pc |-> "idle"]
NoIngest == [pc |-> "idle"]
NoProc == [pc |-> "idle"]
NoPurge == [pc |-> "idle"]

InitOther ==
  /\ parsed = NoParsed
  /\ checked = NoChecked
  /\ ingest = NoIngest
  /\ proc = NoProc
  /\ purge = NoPurge

\* qrs.py before any of its operations is called
InitQrs ==
  /\ call = NoCall
  /\ args = NoArgs
  /\ codes = <<>>
  /\ task = <<>>
  /\ results = NoFiles
  /\ report = NoReport

InitCommon ==
  /\ qrs_dir = NoDir
  /\ InitQrs
  /\ InitOther

Init == InitCommon

\* what the server does on the attempts of one call; the second attempt is
\* only made after a failed first one
ServerRuns ==
  {outs \in [1..MAX_RETRIES -> Outcomes] : AttemptOk(outs[1]) => outs[2] = outs[1]}

\* a caller passes the arguments of its next call
Invoke(id, strategy, allow_fallback) ==
  /\ call.op # "invoked"
  /\ call' = [NoCall EXCEPT !.op = "invoked", !.id = id, !.strategy = strategy,
                            !.allow_fallback = allow_fallback, !.pre = qrs_dir]
  /\ UNCHANGED <<qrs_dir, prefetch, other>>

\* the invoked call runs from its first line to its return or raise
GetQrImage(outs) ==
  /\ call.op = "invoked"
  /\ LET r == get_qr_image(call.id, call.strategy, call.allow_fallback, outs, qrs_dir)
     IN /\ qrs_dir' = r.dir
        /\ call' = [call EXCEPT !.op = "ended", !.server = <<outs[1]>>,
                                !.met = r.dl.met, !.trace = r.dl.trace,
                                !.returned = r.dl.content, !.result = r.result]
  /\ UNCHANGED <<prefetch, other>>

Next ==
  \/ \E id \in Idents, strategy \in Strategies, allow_fallback \in BOOLEAN :
       Invoke(id, strategy, allow_fallback)
  \/ \E outs \in ServerRuns : GetQrImage(outs)

Spec == Init /\ [][Next]_vars

(***************************************************************************)
(* prefetch_qrs: every identifier of the list is a fetch_single task of a  *)
(* pool of worker threads.  A task runs get_qr_image in the steps at which *)
(* it touches the cache directory: the lookup (with the download that      *)
(* follows a miss, which touches nothing shared), the read of a hit, the   *)
(* open for writing and the write.  The main thread collects the finished  *)
(* tasks into results and then counts.                                     *)
(***************************************************************************)
MaxWorkers == 2

PrefetchIdents == {IdA, IdUrlA, IdSlash}

\* caches left behind by earlier runs
PrefetchCaches ==
  {NoDir,
   [exists |-> TRUE, files |-> (ValidName(IdA) :> ServerBytes(Url(IdA), 1))],
   [exists |-> TRUE, files |-> (FallbackName(IdA) :> generate_qr_local(IdA))]}

\* what the server does during one task: an image at once, an image on the
\* second attempt, no answer at all
PrefetchRuns ==
  {outs \in ServerRuns :
     \A i \in DOMAIN outs :
       \/ outs[i].exc = "Timeout"
       \/ outs[i].exc = "none" /\ outs[i].status = 200 /\ outs[i].body = 1}

\* the lists of identifiers of at most n elements
Lists(n) == UNION {[1..k -> PrefetchIdents] : k \in 0..n}

\* what is left in a file written over by two writers of different lengths
Corrupt == [src |-> "corrupt", data |-> <<>>, ver |-> 0]

QueuedTask(code) ==
  [pc |-> "queued", code |-> code, name |-> <<>>, bytes |-> None,
   read |-> <<>>, result |-> Raised("none"), at |-> 0]

InitPrefetch ==
  /\ qrs_dir \in PrefetchCaches
  /\ call = NoCall
  /\ args = NoArgs
  /\ codes = <<>>
  /\ task = <<>>
  /\ results = NoFiles
  /\ report = NoReport
  /\ InitOther

\* lines 206-219: the call and the submission of one task per list element
Prefetch(cs, strategy, allow_fallback, workers) ==
  /\ args.phase = "idle"
  /\ args' = [phase |-> "running", strategy |-> strategy,
              allow_fallback |-> allow_fallback, workers |-> workers]
  /\ codes' = cs
  /\ task' = [i \in DOMAIN cs |-> QueuedTask(cs[i])]
  /\ results' = NoFiles
  /\ UNCHANGED <<qrs_dir, call, report, other>>

Running == {i \in DOMAIN task : task[i].pc \in {"read", "open", "write"}}
Queued == {i \in DOMAIN task : task[i].pc = "queued"}

\* enough idle workers to have taken the tasks queued before task i, and task i
CanStart(i) ==
  /\ task[i].pc = "queued"
  /\ Cardinality({j \in Queued : j < i}) + 1 <= args.workers - Cardinality(Running)

Finish(i, result) == [task[i] EXCEPT !.pc = "done", !.result = result]

\* get_qr_image lines 121-183 up to the first access to a cache file
Begin(i, outs) ==
  /\ args.phase = "running"
  /\ CanStart(i)
  /\ LET id == task[i].code
         codigo == Codigo(id)
         d1 == IF args.strategy = "cache" /\ id \notin LocalFiles THEN makedirs(qrs_dir) ELSE qrs_dir
         cache_path == ValidName(codigo)
         dl == download_qr_from_url(Url(id), outs)
     IN /\ qrs_dir' = d1
        /\ task' = [task EXCEPT ![i] =
             IF id \in LocalFiles
             THEN Finish(i, Returned("local-file", FileBytes(id)))
             ELSE IF args.strategy = "cache" /\ Exists(d1, cache_path)
                       /\ ~EndsWith(cache_path, LOCAL_PNG)
             THEN [task[i] EXCEPT !.pc = "read", !.name = cache_path]
             ELSE IF Truthy(dl.content)
             THEN IF args.strategy = "cache"
                  THEN [task[i] EXCEPT !.pc = "open", !.name = cache_path,
                                       !.bytes = dl.content,
                                       !.result = Returned("downloaded", dl.content)]
                  ELSE Finish(i, Returned("downloaded", dl.content))
             ELSE IF ~args.allow_fallback
             THEN Finish(i, Raised("unreachable"))
             ELSE IF args.strategy = "cache"
                  THEN [task[i] EXCEPT !.pc = "open", !.name = FallbackName(codigo),
                                       !.bytes = generate_qr_local(id),
                                       !.result = Returned("generated", generate_qr_local(id))]
                  ELSE Finish(i, Returned("generated", generate_qr_local(id)))]
  /\ UNCHANGED <<call, args, codes, results, report, other>>

\* lines 143-144: open(cache_path, 'rb') and f.read()
Read(i) ==
  /\ task[i].pc = "read"
  /\ task' = [task EXCEPT ![i] =
       [task[i] EXCEPT !.pc = "done", !.read = <<qrs_dir.files[task[i].name]>>,
                       !.result = Returned("cache", qrs_dir.files[task[i].name])]]
  /\ UNCHANGED <<qrs_dir, call, args, codes, results, report, other>>

\* lines 156 and 178: open(cache_path, 'wb') creates or truncates the file
Open(i) ==
  /\ task[i].pc = "open"
  /\ IF OpenFails(qrs_dir, task[i].name)
     THEN /\ task' = [task EXCEPT ![i] = Finish(i, Raised("OSError"))]
          /\ UNCHANGED qrs_dir
     ELSE /\ task' = [task EXCEPT ![i].pc = "write"]
          /\ qrs_dir' = Truncate(qrs_dir, task[i].name)
  /\ UNCHANGED <<call, args, codes, results, report, other>>

\* lines 157 and 179: the bytes go to the start of the file at the close of the
\* with block; over what another writer has put there since the open, a shorter
\* content leaves the tail of the longer one
Write(i) ==
  /\ task[i].pc = "write"
  /\ \E written \in IF qrs_dir.files[task[i].name] \in {EmptyBytes, task[i].bytes}
                    THEN {task[i].bytes}
                    ELSE {task[i].bytes, Corrupt} :
       qrs_dir' = WriteBytes(qrs_dir, task[i].name, written)
  /\ task' = [task EXCEPT ![i].pc = "done"]
  /\ UNCHANGED <<call, args, codes, results, report, other>>

Collected == {j \in DOMAIN task : task[j].pc = "collected"}

\* a main thread that leaves the failures out of the dictionary
Collect_DropsFailures(i) ==
  /\ task[i].pc = "done"
  /\ task' = [task EXCEPT ![i].pc = "collected", ![i].at = Cardinality(Collected) + 1]
  /\ results' = IF task[i].result.kind = "raised" THEN results
                ELSE [c \in DOMAIN results \cup {task[i].code} |->
                        IF c = task[i].code THEN task[i].result ELSE results[c]]
  /\ UNCHANGED <<qrs_dir, call, args, codes, report, other>>

\* a main thread that keeps the first outcome stored under a code
Collect_FirstWins(i) ==
  /\ task[i].pc = "done"
  /\ task' = [task EXCEPT ![i].pc = "collected", ![i].at = Cardinality(Collected) + 1]
  /\ results' = [c \in DOMAIN results \cup {task[i].code} |->
                   IF c \in DOMAIN results THEN results[c] ELSE task[i].result]
  /\ UNCHANGED <<qrs_dir, call, args, codes, report, other>>

\* lines 210-216 and 221-223: fetch_single turns an exception into its text,
\* and the main thread stores the outcome of a finished task under its code;
\* at is the position of the task in the order of as_completed
Collect(i) ==
  /\ task[i].pc = "done"
  /\ task' = [task EXCEPT ![i].pc = "collected", ![i].at = Cardinality(Collected) + 1]
  /\ results' = [c \in DOMAIN results \cup {task[i].code} |->
                   IF c = task[i].code THEN task[i].result ELSE results[c]]
  /\ UNCHANGED <<qrs_dir, call, args, codes, report, other>>

\* isinstance(r, io.BytesIO)
IsBytesIO(r) == r.kind # "raised"

\* lines 230-238: the counts and the error message
Complete ==
  /\ args.phase = "running"
  /\ \A i \in DOMAIN task : task[i].pc = "collected"
  /\ LET success == Cardinality({c \in DOMAIN results : IsBytesIO(results[c])})
         failed == Len(codes) - success
     IN report' = [success |-> success, failed |-> failed,
                   logged |-> (failed > 0 /\ ~args.allow_fallback)]
  /\ args' = [args EXCEPT !.phase = "done"]
  /\ UNCHANGED <<qrs_dir, call, codes, task, results, other>>

NextPrefetch ==
  \/ \E cs \in Lists(MaxCodes), strategy \in Strategies, allow_fallback \in BOOLEAN,
        workers \in 1..MaxWorkers : Prefetch(cs, strategy, allow_fallback, workers)
  \/ \E i \in DOMAIN task, outs \in PrefetchRuns : Begin(i, outs)
  \/ \E i \in DOMAIN task : Read(i)
  \/ \E i \in DOMAIN task : Open(i)
  \/ \E i \in DOMAIN task : Write(i)
  \/ \E i \in DOMAIN task : Collect(i)
  \/ Complete

SpecPrefetch == InitPrefetch /\ [][NextPrefetch]_vars

(***************************************************************************)
(* Vocabulary of the properties: the call that has just ended.             *)
(***************************************************************************)
Ended == call.op = "ended"

\* the ended call went past the local-file step
Resolved == Ended /\ call.id \notin LocalFiles

Key == Codigo(call.id)

\* an attempt that got no response, or an error response (4xx, 5xx)
AttemptFailed(o) == o.exc # "none" \/ o.status >= 400

\* the call asked the server, and every attempt failed
DownloadExhausted ==
  /\ Ended
  /\ call.met # <<>>
  /\ \A i \in DOMAIN call.met : AttemptFailed(call.met[i])

\* at the time of the call the server answered 200 with an image
ServerReachable ==
  /\ Ended
  /\ call.server[1].exc = "none" /\ call.server[1].status = 200 /\ call.server[1].body > 0

\* the names of the cache files the call created or modified
Written ==
  {n \in DOMAIN qrs_dir.files : n \notin DOMAIN call.pre.files \/ qrs_dir.files[n] # call.pre.files[n]}

\* C1: with allow_fallback false and every download attempt failed, the call
\* raises the server-unreachable error; a call with allow_fallback false never
\* returns locally generated bytes.
C1_FallbackGate ==
  /\ (DownloadExhausted /\ ~call.allow_fallback) => call.result = Raised("unreachable")
  /\ (Ended /\ ~call.allow_fallback) => call.result.content.src # "generated"

C1_Witness ==
  /\ DownloadExhausted /\ ~call.allow_fallback
  /\ call.strategy = "cache" /\ Len(call.met) = MAX_RETRIES
  /\ call.result.error = "unreachable"

\* C2 as stated: the valid-tier file {key}.png of no key holds generated bytes.
C2_NoGeneratedInValidTier ==
  \A id \in Idents \ LocalFiles :
    Exists(qrs_dir, ValidName(Codigo(id)))
      => qrs_dir.files[ValidName(Codigo(id))].src # "generated"

\* C2, amended: a cache file whose name does not end in "_local.png" never
\* holds generated bytes, and a call that generates an image writes no file
\* but {key}_local.png of its own key.
C2_GeneratedOnlyInLocalFiles ==
  /\ \A n \in DOMAIN qrs_dir.files :
       qrs_dir.files[n].src = "generated" => EndsWith(n, LOCAL_PNG)
  /\ (Ended /\ call.result.kind = "generated") => Written \subseteq {FallbackName(Key)}

C2_Witness ==
  /\ Ended /\ call.strategy = "cache" /\ call.result.kind = "generated"
  /\ Written = {FallbackName(Key)}
  /\ qrs_dir.files[FallbackName(Key)].src = "generated"

\* the call ran under strategy=cache with both entries of its key in the cache
BothEntries ==
  /\ Resolved /\ call.strategy = "cache"
  /\ Exists(call.pre, ValidName(Key)) /\ Exists(call.pre, FallbackName(Key))

\* C3 as stated: with both entries present and the server reachable, the call
\* downloads afresh and returns the downloaded bytes.
C3_PrefersFreshDownload ==
  (BothEntries /\ ServerReachable)
    => /\ call.trace # <<>>
       /\ call.result = Returned("downloaded", ServerBytes(Url(call.id), call.server[1].body))

\* C3, amended: with both entries present and the server reachable, the
\* fallback entry is neither returned nor touched; the call returns the valid
\* entry without any request and leaves the cache as it was, except for a key
\* ending in "_local", for which it downloads afresh and overwrites {key}.png.
C3_ValidEntryBeforeFallback ==
  (BothEntries /\ ServerReachable)
    => /\ call.result.content # call.pre.files[FallbackName(Key)]
       /\ qrs_dir.files[FallbackName(Key)] = call.pre.files[FallbackName(Key)]
       /\ ~EndsWith(Key, LOCAL_SUFFIX)
            => /\ call.result = Returned("cache", call.pre.files[ValidName(Key)])
               /\ call.trace = <<>>
               /\ qrs_dir = call.pre
       /\ EndsWith(Key, LOCAL_SUFFIX)
            => /\ call.result = Returned("downloaded", ServerBytes(Url(call.id), call.server[1].body))
               /\ qrs_dir.files[ValidName(Key)] = call.result.content

C3_Witness ==
  /\ BothEntries /\ ServerReachable
  /\ call.result.kind = "cache"
  /\ call.pre.files[FallbackName(Key)].src = "generated"

\* the call ran under strategy=cache with the valid entry of its key in the cache
ValidEntry == Resolved /\ call.strategy = "cache" /\ Exists(call.pre, ValidName(Key))

\* the call downloaded under strategy=cache and returned
DownloadedToCache == Resolved /\ call.strategy = "cache" /\ call.result.kind = "downloaded"

\* a call with the same identifier and strategy, starting from the cache as
\* it is now, finds its valid entry holding the bytes just returned
NextCallFindsEntry ==
  /\ Exists(qrs_dir, ValidName(Key))
  /\ qrs_dir.files[ValidName(Key)] = call.result.content

\* C4 as stated: whenever the valid entry exists the call returns its bytes
\* without a request, for every identifier that is not a local file; and a
\* call that downloaded leaves the entry for the next call.
C4_ValidHitAnyIdentifier ==
  /\ ValidEntry => /\ call.result = Returned("cache", call.pre.files[ValidName(Key)])
                   /\ call.trace = <<>>
  /\ DownloadedToCache => NextCallFindsEntry

\* C4, amended: the same, for identifiers whose key does not end in "_local".
C4_ValidHit ==
  ~EndsWith(Key, LOCAL_SUFFIX)
    => /\ ValidEntry => /\ call.result = Returned("cache", call.pre.files[ValidName(Key)])
                        /\ call.trace = <<>>
       /\ DownloadedToCache => NextCallFindsEntry

\* the second of two calls for one identifier: the first one downloaded
C4_Witness ==
  /\ ValidEntry /\ ~EndsWith(Key, LOCAL_SUFFIX)
  /\ call.pre.files[ValidName(Key)].data = Url(call.id)
  /\ call.result.kind = "cache" /\ call.trace = <<>>

\* C5: whatever a prefetch worker reads from a cache file is one complete
\* content written there, never the empty or mixed content of a file that
\* another worker is writing.
C5_ReadsSeeCompleteFiles ==
  \A i \in DOMAIN task :
    task[i].read # <<>> => task[i].read[1] \notin {EmptyBytes, Corrupt}

\* C6: the call raises only the server-unreachable error, and only with
\* allow_fallback false after every download attempt failed; a cache file that
\* cannot be written does not make the call raise.
C6_OnlyUnreachableRaised ==
  (Ended /\ call.result.kind = "raised")
    => /\ call.result.error = "unreachable"
       /\ ~call.allow_fallback
       /\ call.trace # <<>> /\ ~Truthy(call.returned)

\* the call ran under strategy=cache with only the fallback entry of its key
OnlyFallbackEntry ==
  /\ Resolved /\ call.strategy = "cache"
  /\ Exists(call.pre, FallbackName(Key)) /\ ~Exists(call.pre, ValidName(Key))

\* C7: with only {key}_local.png in the cache the call asks the server, and
\* what it returns is not a cache hit.
C7_FallbackEntryNoShortCircuit ==
  OnlyFallbackEntry
    => /\ call.trace # <<>> /\ Head(call.trace) = "request"
       /\ call.result.kind # "cache"

\* a repeated call: the fallback entry was generated for this very identifier,
\* the server is still down and the image is generated again
C7_Witness ==
  /\ OnlyFallbackEntry
  /\ call.pre.files[FallbackName(Key)] = generate_qr_local(call.id)
  /\ DownloadExhausted
  /\ call.result.kind = "generated"

\* C8: a call with strategy=download leaves the cache directory as it was,
\* whatever its outcome.
C8_DownloadNeverPersists ==
  (Ended /\ call.strategy = "download") => qrs_dir = call.pre

C8_Witness ==
  /\ Ended /\ call.strategy = "download" /\ call.id \notin LocalFiles
  /\ call.result.kind \in {"downloaded", "generated"}
  /\ call.pre.exists /\ ~Exists(call.pre, ValidName(Key)) /\ ~Exists(call.pre, FallbackName(Key))

\* C9: with allow_fallback true and every download attempt failed, the call
\* returns a generated image that encodes the identifier as given, and under
\* strategy=cache {key}_local.png holds the returned bytes.
C9_DegradeToFallback ==
  (DownloadExhausted /\ call.allow_fallback)
    => /\ call.result = Returned("generated", generate_qr_local(call.id))
       /\ call.strategy = "cache"
            => /\ Exists(qrs_dir, FallbackName(Key))
               /\ qrs_dir.files[FallbackName(Key)] = call.result.content

\* the number of requests in a trace
RECURSIVE Requests(_)
Requests(trace) ==
  IF trace = <<>> THEN 0
  ELSE (IF Head(trace) = "request" THEN 1 ELSE 0) + Requests(Tail(trace))

\* requests and sleeps alternate, and the trace begins and ends with a request
SleepsOnlyBetween(trace) ==
  /\ trace[1] = "request" /\ trace[Len(trace)] = "request"
  /\ \A i \in 1..(Len(trace) - 1) : trace[i] # trace[i + 1]

\* the retry protocol of one download_qr_from_url call, with failed(o) telling
\* which answers count as a failed attempt
RetryProtocol(failed(_)) ==
  (Ended /\ call.trace # <<>>)
    => /\ Requests(call.trace) <= 2
       /\ Requests(call.trace) = Len(call.met)
       /\ \A i \in 1..(Len(call.met) - 1) : failed(call.met[i])
       /\ SleepsOnlyBetween(call.trace)
       /\ IF \A i \in DOMAIN call.met : failed(call.met[i])
          THEN ~Truthy(call.returned)
          ELSE call.returned = Content(Url(call.id), call.met[Len(call.met)])

\* a timeout, a transport error or a status outside 2xx
FailedNon2xx(o) == o.exc # "none" \/ o.status < 200 \/ o.status >= 300

\* C10 as stated: at most 2 requests, none after the first successful one, a
\* sleep only between two attempts, and None once every attempt has ended in a
\* timeout, a transport error or a non-2xx status.
C10_RetryProtocolNon2xx == RetryProtocol(FailedNon2xx)

\* C10, amended: the attempts that fail are those ending in a timeout, a
\* transport error or a 4xx/5xx status; any other response, a 3xx one that is
\* not followed included, ends the loop and its body is returned.
C10_RetryProtocol ==
  /\ RetryProtocol(AttemptFailed)
  /\ DownloadExhausted => call.returned = None /\ Len(call.met) = MAX_RETRIES

C10_Witness ==
  /\ DownloadExhausted
  /\ call.trace = <<"request", "sleep", "request">>
  /\ call.met[1].exc = "Timeout" /\ call.met[2].status = 404
  /\ call.returned = None

(***************************************************************************)
(* Vocabulary of the properties: the batch prefetch_qrs has returned from. *)
(***************************************************************************)
PrefetchDone == args.phase = "done"

\* the identifiers of the list, and those at more than one position of it
Batch == {codes[i] : i \in DOMAIN codes}
Distinct == Cardinality(Batch) = Len(codes)
Repeated == {c \in Batch : Cardinality({i \in DOMAIN codes : codes[i] = c}) > 1}

\* the positions whose resolution raised
FailedTasks == {i \in DOMAIN task : task[i].result.kind = "raised"}

\* the position of code c whose outcome was stored last
LastStored(c) ==
  CHOOSE i \in DOMAIN task :
    /\ task[i].code = c
    /\ \A j \in DOMAIN task : task[j].code = c => task[j].at <= task[i].at

\* C11: prefetch_qrs on N distinct identifiers returns a mapping with exactly
\* those N keys, whatever failed; the entry of an identifier whose resolution
\* failed is the description of its error, every resolution has run to its
\* end, and the entry of each identifier is the outcome of its own resolution.
C11_PrefetchCompleteIsolated ==
  (PrefetchDone /\ Distinct) =>
    /\ DOMAIN results = Batch
    /\ Cardinality(DOMAIN results) = Len(codes)
    /\ \A i \in DOMAIN task :
         /\ task[i].pc = "collected"
         /\ results[task[i].code] = task[i].result
         /\ i \in FailedTasks =>
              /\ ~IsBytesIO(results[task[i].code])
              /\ results[task[i].code].error \in {"unreachable", "OSError"}

\* a batch of two distinct identifiers whose resolutions both failed
C11_Witness ==
  /\ PrefetchDone /\ Distinct /\ Len(codes) = 2
  /\ FailedTasks = DOMAIN task
  /\ DOMAIN results = Batch

\* C12: an identifier at more than one position of the list has exactly one
\* entry in the returned mapping, the outcome that was stored last.
C12_LastWriteWins ==
  PrefetchDone =>
    /\ DOMAIN results = Batch
    /\ \A c \in Repeated : results[c] = task[LastStored(c)].result

\* the same identifier twice, resolved with two different outcomes
C12_Witness ==
  /\ PrefetchDone
  /\ \E i, j \in DOMAIN task :
       /\ task[i].code = task[j].code
       /\ task[i].at < task[j].at
       /\ task[i].result # task[j].result
       /\ results[task[j].code] = task[j].result

\* C13: the failure count computed after completion is the number of
\* identifiers of the list whose resolution failed, and the error message is
\* logged exactly when at least one resolution failed and allow_fallback is
\* false.
C13_FailureReport ==
  PrefetchDone =>
    /\ report.failed = Cardinality(FailedTasks)
    /\ report.logged <=> (FailedTasks # {} /\ ~args.allow_fallback)

(***************************************************************************)
(* excel.py.  The texts of the sheet are sequences of characters, so that  *)
(* str, strip and upper are computed on them.                              *)
(***************************************************************************)
LowerChars ==
  <<"a","b","c","d","e","f","g","h","i","j","k","l","m","n","o","p","q","r","s","t","u","v","w","x","y","z","á","é","í","ó","ú","ñ">>
UpperChars ==
  <<"A","B","C","D","E","F","G","H","I","J","K","L","M","N","O","P","Q","R","S","T","U","V","W","X","Y","Z","Á","É","Í","Ó","Ú","Ñ">>

\* str.upper and str.lower, character by character
UpperOf ==
  [c \in {LowerChars[i] : i \in DOMAIN LowerChars} |->
     UpperChars[CHOOSE i \in DOMAIN LowerChars : LowerChars[i] = c]]
LowerOf ==
  [c \in {UpperChars[i] : i \in DOMAIN UpperChars} |->
     LowerChars[CHOOSE i \in DOMAIN UpperChars : UpperChars[i] = c]]
UpperChar(c) == IF c \in DOMAIN UpperOf THEN UpperOf[c] ELSE c
LowerChar(c) == IF c \in DOMAIN LowerOf THEN LowerOf[c] ELSE c
Upper(s) == [i \in DOMAIN s |-> UpperChar(s[i])]
Lower(s) == [i \in DOMAIN s |-> LowerChar(s[i])]

\* str.strip(): the text between the first and the last character that is
\* not white space
Whitespace == {" ", "\t", "\n"}
Strip(s) ==
  LET keep == {i \in DOMAIN s : s[i] \notin Whitespace}
  IN IF keep = {} THEN <<>>
     ELSE SubSeq(s, CHOOSE i \in keep : \A j \in 1..(i - 1) : s[j] \in Whitespace,
                    CHOOSE i \in keep : \A j \in (i + 1)..Len(s) : s[j] \in Whitespace)

\* str(value)
DigitChars == <<"0","1","2","3","4","5","6","7","8","9">>
PyStr(v) ==
  CASE v.t = "str" -> v.s
    [] v.t = "int" -> <<DigitChars[v.n + 1]>>
    [] v.t = "float" -> <<DigitChars[v.n + 1], ".", "0">>
    [] v.t = "bool" -> IF v.n = 1 THEN <<"T","r","u","e">> ELSE <<"F","a","l","s","e">>
    [] v.t = "nan" -> <<"n","a","n">>
    [] OTHER -> <<"N","o","n","e">>

\* pd.isna(value) and bool(value)
isna(v) == v.t \in {"nan", "none"}
PyTruthy(v) ==
  CASE v.t = "str" -> v.s # <<>>
    [] v.t \in {"int", "float", "bool"} -> v.n # 0
    [] v.t = "nan" -> TRUE
    [] OTHER -> FALSE

TRUE_VALUES ==
  {<<"S","I">>,
   <<"S","Í">>,
   <<"S">>,
   <<"Y","E","S">>,
   <<"Y">>,
   <<"1">>,
   <<"T","R","U","E">>,
   <<"V","E","R","D","A","D","E","R","O">>}

\* a parse_boolean that compares without upper()
parse_boolean_CaseSensitive(value) ==
  IF isna(value) THEN FALSE ELSE Strip(PyStr(value)) \in TRUE_VALUES

parse_boolean(value) ==
  IF isna(value) THEN FALSE ELSE Upper(Strip(PyStr(value))) \in TRUE_VALUES

\* the values handed to parse_boolean: every token in upper case, in lower
\* case and capitalized, bare and with white space around it; the values of
\* test_parse_boolean; other texts, numbers and bools
Capitalize(s) == [i \in DOMAIN s |-> IF i = 1 THEN UpperChar(s[i]) ELSE LowerChar(s[i])]
Spellings(t) == {Upper(t), Lower(t), Capitalize(t)}
Paddings(s) == {s, <<" ">> \o s, s \o <<" ">>, <<" ">> \o s \o <<" ">>, <<"\t">> \o s \o <<"\n">>}
OtherTexts ==
  {<<>>, <<"N","O">>, <<"n","o">>, <<"N">>, <<"n">>, <<"0">>, <<"F","A","L","S","E">>, <<"x">>, <<"S","I","S">>, <<"S"," ","I">>, <<"1",".","0">>, <<"n","a","n">>}
BooleanValues ==
  {Str(p) : p \in UNION {Paddings(c) : c \in UNION {Spellings(t) : t \in TRUE_VALUES}}}
    \cup {Str(p) : p \in UNION {Paddings(x) : x \in OtherTexts}}
    \cup {NaN, PyNone, PyInt(0), PyInt(1), PyFloat(0), PyFloat(1), PyBool(TRUE), PyBool(FALSE)}

InitParseBoolean ==
  /\ qrs_dir = NoDir
  /\ InitQrs
  /\ parsed \in {[NoParsed EXCEPT !.value = v] : v \in BooleanValues}
  /\ checked = NoChecked
  /\ ingest = NoIngest
  /\ proc = NoProc
  /\ purge = NoPurge

\* lines 84-88: the call with the value handed over
ParseBoolean ==
  /\ ~parsed.returned
  /\ parsed' = [parsed EXCEPT !.returned = TRUE, !.result = parse_boolean(parsed.value)]
  /\ UNCHANGED <<qrs_dir, call, prefetch, checked, ingest, proc, purge>>

NextParseBoolean == ParseBoolean

SpecParseBoolean == InitParseBoolean /\ [][NextParseBoolean]_vars

\* the value is a text that, without the white space around it, is one of the
\* tokens in some letter case
IsTrueToken(v) ==
  /\ v.t = "str"
  /\ \E t \in TRUE_VALUES :
       LET w == Strip(v.s)
       IN /\ Len(w) = Len(t)
          /\ \A i \in DOMAIN t : w[i] = t[i] \/ w[i] = LowerChar(t[i])

\* C18: parse_boolean returns true for every token of TRUE_VALUES in any
\* letter case with white space around it, and false for the empty text, a
\* missing value, NO and every other text that is not such a token.
C18_ParseBoolean ==
  parsed.returned =>
    /\ IsTrueToken(parsed.value) => parsed.result
    /\ (parsed.value.t \in {"str", "nan", "none"} /\ ~IsTrueToken(parsed.value))
         => ~parsed.result

\* the accented token in lower case between spaces, parsed as true
C18_Witness ==
  /\ parsed.returned
  /\ parsed.value = Str(<<" ","s","í"," ">>)
  /\ parsed.result

(***************************************************************************)
(* validate_row.  A row is a dictionary; the message is kept as the row    *)
(* number and the list of errors that the f-string of line 124 joins.      *)
(***************************************************************************)
\* largest row_index handed to validate_row
MaxRowIndex == 2

NoMessage == [none |-> TRUE, fila |-> 0, errors |-> <<>>]

\* not row.get(key) or pd.isna(row[key])
IsEmpty(row, key) == ~PyTruthy(row[key]) \/ isna(row[key])

\* a validate_row that stops at the first error
validate_row_FirstOnly(row, row_index) ==
  LET Check(key, text) == IF IsEmpty(row, key) THEN <<text>> ELSE <<>>
      errors ==
        Check("PrimerNombre", "PrimerNombre vacío")
        \o Check("PrimerApellido", "PrimerApellido vacío")
        \o Check("QR", "QR vacío")
        \o (IF PyTruthy(row["LLevaConyugue"])
            THEN Check("PrimerNombreConyugue", "LLevaConyugue=True pero PrimerNombreConyugue vacío")
                 \o Check("PrimerApellidoConyugue", "LLevaConyugue=True pero PrimerApellidoConyugue vacío")
                 \o Check("QR_Conyugue", "LLevaConyugue=True pero QR_Conyugue vacío")
            ELSE <<>>)
  IN IF errors # <<>>
     THEN [none |-> FALSE, fila |-> row_index + 2, errors |-> <<Head(errors)>>]
     ELSE NoMessage

\* a validate_row without the check of the companion's QR
validate_row_NoCompanionQr(row, row_index) ==
  LET Check(key, text) == IF IsEmpty(row, key) THEN <<text>> ELSE <<>>
      errors ==
        Check("PrimerNombre", "PrimerNombre vacío")
        \o Check("PrimerApellido", "PrimerApellido vacío")
        \o Check("QR", "QR vacío")
        \o (IF PyTruthy(row["LLevaConyugue"])
            THEN Check("PrimerNombreConyugue", "LLevaConyugue=True pero PrimerNombreConyugue vacío")
                 \o Check("PrimerApellidoConyugue", "LLevaConyugue=True pero PrimerApellidoConyugue vacío")
            ELSE <<>>)
  IN IF errors # <<>>
     THEN [none |-> FALSE, fila |-> row_index + 2, errors |-> errors]
     ELSE NoMessage

\* lines 102-126
validate_row(row, row_index) ==
  LET Check(key, text) == IF IsEmpty(row, key) THEN <<text>> ELSE <<>>
      errors ==
        Check("PrimerNombre", "PrimerNombre vacío")
        \o Check("PrimerApellido", "PrimerApellido vacío")
        \o Check("QR", "QR vacío")
        \o (IF PyTruthy(row["LLevaConyugue"])
            THEN Check("PrimerNombreConyugue", "LLevaConyugue=True pero PrimerNombreConyugue vacío")
                 \o Check("PrimerApellidoConyugue", "LLevaConyugue=True pero PrimerApellidoConyugue vacío")
                 \o Check("QR_Conyugue", "LLevaConyugue=True pero QR_Conyugue vacío")
            ELSE <<>>)
  IN IF errors # <<>>
     THEN [none |-> FALSE, fila |-> row_index + 2, errors |-> errors]
     ELSE NoMessage

\* the rows handed to validate_row: every field it reads absent, NaN, empty
\* or filled, the flag as parse_boolean gives it, and a field it does not read
RowTexts == {PyNone, NaN, Str(<<>>), Str(<<"x">>)}

Rows ==
  [PrimerNombre : RowTexts, PrimerApellido : RowTexts, QR : RowTexts,
   LLevaConyugue : {PyBool(TRUE), PyBool(FALSE)},
   PrimerNombreConyugue : RowTexts, PrimerApellidoConyugue : RowTexts,
   QR_Conyugue : RowTexts, Puesto : {Str(<<>>), Str(<<"x">>)}]

InitValidateRow ==
  /\ qrs_dir = NoDir
  /\ InitQrs
  /\ parsed = NoParsed
  /\ checked \in [pc : {"given"}, row : Rows, row_index : 0..MaxRowIndex, msg : {NoMessage}]
  /\ ingest = NoIngest
  /\ proc = NoProc
  /\ purge = NoPurge

\* the call with the row and the index handed over
ValidateRow ==
  /\ checked.pc = "given"
  /\ checked' = [checked EXCEPT !.pc = "returned",
                                !.msg = validate_row(checked.row, checked.row_index)]
  /\ UNCHANGED <<qrs_dir, call, prefetch, parsed, ingest, proc, purge>>

NextValidateRow == ValidateRow

SpecValidateRow == InitValidateRow /\ [][NextValidateRow]_vars

(***************************************************************************)
(* Vocabulary of the properties: the row validate_row has returned from.   *)
(***************************************************************************)
Validated == checked.pc = "returned"

\* a non-empty text
Filled(v) == v.t = "str" /\ v.s # <<>>

HasCompanion(row) == row.LLevaConyugue = PyBool(TRUE)

\* the rules of a row, and the error text of each
OwnRules ==
  {<<"PrimerNombre", "PrimerNombre vacío">>,
   <<"PrimerApellido", "PrimerApellido vacío">>,
   <<"QR", "QR vacío">>}
CompanionRules ==
  {<<"PrimerNombreConyugue", "LLevaConyugue=True pero PrimerNombreConyugue vacío">>,
   <<"PrimerApellidoConyugue", "LLevaConyugue=True pero PrimerApellidoConyugue vacío">>,
   <<"QR_Conyugue", "LLevaConyugue=True pero QR_Conyugue vacío">>}

Violated(row) ==
  {r \in OwnRules : ~Filled(row[r[1]])}
    \cup {r \in CompanionRules : HasCompanion(row) /\ ~Filled(row[r[1]])}

\* C16: a row whose has-companion flag is true and whose companion QR is empty
\* is rejected by validate_row, whatever the other fields hold.
C16_CompanionQrRequired ==
  (Validated /\ HasCompanion(checked.row) /\ ~Filled(checked.row.QR_Conyugue))
    => ~checked.msg.none

\* a row rejected for its empty companion QR only
C16_Witness ==
  /\ Validated
  /\ HasCompanion(checked.row)
  /\ checked.row.QR_Conyugue = Str(<<>>)
  /\ \A k \in {"PrimerNombre", "PrimerApellido", "QR", "PrimerNombreConyugue",
               "PrimerApellidoConyugue"} : Filled(checked.row[k])
  /\ checked.msg.errors = <<"LLevaConyugue=True pero QR_Conyugue vacío">>

\* C17: validate_row returns no message exactly when no rule of the row is
\* violated (a row without companion needs no companion field); otherwise
\* the message lists each violated rule once and carries row_index + 2.
C17_ValidationResult ==
  Validated =>
    /\ checked.msg.none <=> Violated(checked.row) = {}
    /\ checked.msg.none <=>
         /\ Filled(checked.row.PrimerNombre) /\ Filled(checked.row.PrimerApellido)
         /\ Filled(checked.row.QR)
         /\ \/ ~HasCompanion(checked.row)
            \/ /\ Filled(checked.row.PrimerNombreConyugue)
               /\ Filled(checked.row.PrimerApellidoConyugue)
               /\ Filled(checked.row.QR_Conyugue)
    /\ ~checked.msg.none =>
         /\ checked.msg.fila = checked.row_index + 2
         /\ {checked.msg.errors[i] : i \in DOMAIN checked.msg.errors}
              = {r[2] : r \in Violated(checked.row)}
         /\ Len(checked.msg.errors) = Cardinality(Violated(checked.row))

\* the row at index 1 with two violated rules gets one message for row 3
C17_Witness ==
  /\ Validated
  /\ checked.row_index = 1
  /\ ~HasCompanion(checked.row)
  /\ checked.row.QR_Conyugue = Str(<<>>)
  /\ checked.msg.fila = 3
  /\ checked.msg.errors = <<"PrimerNombre vacío", "QR vacío">>

(***************************************************************************)
(* read_attendees: the file is opened and its headers are validated, then  *)
(* the loop over the rows of the sheet builds and validates one entry per  *)
(* iteration, then the list of valid entries is returned.                  *)
(***************************************************************************)
\* number of data rows of the sheet
MaxSheetRows == 2

REQUIRED_COLUMNS ==
  <<<<"P","u","e","s","t","o">>,
    <<"P","r","i","m","e","r","N","o","m","b","r","e">>,
    <<"P","r","i","m","e","r","A","p","e","l","l","i","d","o">>,
    <<"O","f","i","c","i","n","a">>,
    <<"T","o","u","r">>,
    <<"M","e","s","a">>,
    <<"L","L","e","v","a","C","o","n","y","u","g","u","e">>,
    <<"P","r","i","m","e","r","N","o","m","b","r","e","C","o","n","y","u","g","u","e">>,
    <<"P","r","i","m","e","r","A","p","e","l","l","i","d","o","C","o","n","y","u","g","u","e">>,
    <<"Q","R">>,
    <<"Q","R","_","C","o","n","y","u","g","u","e">>>>

\* lines 55-71: the required columns no header matches without its white
\* space and in upper case
\* a check that stops at the first missing column
MissingColumns_FirstOnly(headers) ==
  LET normalized_headers == {Strip(headers[i]) : i \in DOMAIN headers}
      found(required_col) == \E header \in normalized_headers : Upper(header) = Upper(required_col)
      missing_columns == SelectSeq(REQUIRED_COLUMNS, LAMBDA c : ~found(c))
  IN IF missing_columns = <<>> THEN <<>> ELSE <<missing_columns[1]>>

MissingColumns(headers) ==
  LET normalized_headers == {Strip(headers[i]) : i \in DOMAIN headers}
      found(required_col) == \E header \in normalized_headers : Upper(header) = Upper(required_col)
  IN SelectSeq(REQUIRED_COLUMNS, LAMBDA c : ~found(c))

\* the header rows of the sheets: the required names as they are, in lower
\* case between spaces, and with one and with two of them left out
HeaderLists ==
  {REQUIRED_COLUMNS,
   [i \in DOMAIN REQUIRED_COLUMNS |-> <<" ">> \o Lower(REQUIRED_COLUMNS[i]) \o <<" ">>],
   SubSeq(REQUIRED_COLUMNS, 1, Len(REQUIRED_COLUMNS) - 1),
   SubSeq(REQUIRED_COLUMNS, 2, Len(REQUIRED_COLUMNS) - 1)}

\* the data rows of the sheets, by the canonical names of their columns
RawRows ==
  [Puesto : {Str(<<"D">>)}, PrimerNombre : {Str(<<"A","n","a">>)},
   PrimerApellido : {Str(<<"P","a","z">>)}, Oficina : {NaN}, Tour : {Str(<<"T">>)},
   Mesa : {NaN}, LLevaConyugue : {NaN, Str(<<"s","i">>), Str(<<"N","O">>)},
   PrimerNombreConyugue : {Str(<<"L","u","z">>)},
   PrimerApellidoConyugue : {Str(<<"P","a","z">>)},
   QR : {NaN, Str(<<"A">>)}, QR_Conyugue : {NaN, Str(<<"B">>)}]

Sheets(n) == UNION {[1..k -> RawRows] : k \in 0..n}

\* str(row[k]) if not pd.isna(row[k]) else ""
Text(v) == IF ~isna(v) THEN Str(PyStr(v)) ELSE Str(<<>>)

\* lines 173-185: the entry built from a row
Entry(row) ==
  [Puesto |-> Text(row.Puesto), PrimerNombre |-> Text(row.PrimerNombre),
   PrimerApellido |-> Text(row.PrimerApellido), Oficina |-> Text(row.Oficina),
   Tour |-> Text(row.Tour), Mesa |-> Text(row.Mesa),
   LLevaConyugue |-> PyBool(parse_boolean(row.LLevaConyugue)),
   PrimerNombreConyugue |-> Text(row.PrimerNombreConyugue),
   PrimerApellidoConyugue |-> Text(row.PrimerApellidoConyugue),
   QR |-> Text(row.QR), QR_Conyugue |-> Text(row.QR_Conyugue)]

Called(file, headers, df) ==
  [pc |-> "called", file |-> file, headers |-> headers, df |-> df, idx |-> 0,
   attendees |-> <<>>, invalid_rows |-> <<>>, error |-> "none", missing |-> <<>>]

InitReadAttendees ==
  /\ qrs_dir = NoDir
  /\ InitQrs
  /\ parsed = NoParsed
  /\ checked = NoChecked
  /\ ingest \in {Called("sheet", headers, df) :
                    headers \in HeaderLists, df \in Sheets(MaxSheetRows)}
                 \cup {Called(file, <<>>, <<>>) : file \in {"missing", "unreadable"}}
  /\ proc = NoProc
  /\ purge = NoPurge

\* lines 144-170: the file is looked up and read, the headers are validated
OpenSheet ==
  /\ ingest.pc = "called"
  /\ ingest' =
       IF ingest.file = "missing"
       THEN [ingest EXCEPT !.pc = "raised", !.error = "FileNotFoundError"]
       ELSE IF ingest.file = "unreadable"
       THEN [ingest EXCEPT !.pc = "raised", !.error = "Exception"]
       ELSE IF MissingColumns(ingest.headers) # <<>>
       THEN [ingest EXCEPT !.pc = "raised", !.error = "ValueError",
                           !.missing = MissingColumns(ingest.headers)]
       ELSE [ingest EXCEPT !.pc = "rows"]
  /\ UNCHANGED <<qrs_dir, call, prefetch, parsed, checked, proc, purge>>

\* a loop that ends at the first invalid row
IngestRow_StopsAtBadRow ==
  /\ ingest.pc = "rows"
  /\ ingest.idx < Len(ingest.df)
  /\ LET entry == Entry(ingest.df[ingest.idx + 1])
         error_msg == validate_row(entry, ingest.idx)
     IN ingest' =
          IF ~error_msg.none
          THEN [ingest EXCEPT !.idx = Len(ingest.df),
                              !.invalid_rows = Append(@, error_msg)]
          ELSE [ingest EXCEPT !.idx = @ + 1, !.attendees = Append(@, entry)]
  /\ UNCHANGED <<qrs_dir, call, prefetch, parsed, checked, proc, purge>>

\* lines 172-194: one iteration of the loop over df.iterrows()
IngestRow ==
  /\ ingest.pc = "rows"
  /\ ingest.idx < Len(ingest.df)
  /\ LET entry == Entry(ingest.df[ingest.idx + 1])
         error_msg == validate_row(entry, ingest.idx)
     IN ingest' =
          IF ~error_msg.none
          THEN [ingest EXCEPT !.idx = @ + 1, !.invalid_rows = Append(@, error_msg)]
          ELSE [ingest EXCEPT !.idx = @ + 1, !.attendees = Append(@, entry)]
  /\ UNCHANGED <<qrs_dir, call, prefetch, parsed, checked, proc, purge>>

\* lines 196-208: the loop is over, the valid entries are returned
ReturnAttendees ==
  /\ ingest.pc = "rows"
  /\ ingest.idx = Len(ingest.df)
  /\ ingest' = [ingest EXCEPT !.pc = "returned"]
  /\ UNCHANGED <<qrs_dir, call, prefetch, parsed, checked, proc, purge>>

NextReadAttendees ==
  \/ OpenSheet
  \/ IngestRow
  \/ ReturnAttendees

SpecReadAttendees == InitReadAttendees /\ [][NextReadAttendees]_vars

(***************************************************************************)
(* Vocabulary of the properties: the sheet read_attendees was called on.   *)
(***************************************************************************)
\* the data rows whose entry passes validate_row, and the others
Passing == {i \in DOMAIN ingest.df : validate_row(Entry(ingest.df[i]), i - 1).none}
Rejected == DOMAIN ingest.df \ Passing

\* the k-th element of a set of row positions, in the order of the sheet
Nth(S, k) == CHOOSE i \in S : Cardinality({j \in S : j < i}) = k - 1

\* C19: read_attendees returns exactly the entries of the rows that pass
\* validate_row, in the order of the sheet; every rejected row leaves its
\* message in the list of invalid rows, and no row makes the call raise.
C19_BadRowNeverAborts ==
  /\ ingest.pc = "raised" => (ingest.idx = 0 /\ ingest.attendees = <<>>
                               /\ ingest.invalid_rows = <<>>)
  /\ ingest.pc = "returned" =>
       /\ Len(ingest.attendees) = Cardinality(Passing)
       /\ \A k \in DOMAIN ingest.attendees :
            ingest.attendees[k] = Entry(ingest.df[Nth(Passing, k)])
       /\ Len(ingest.invalid_rows) = Cardinality(Rejected)
       /\ \A k \in DOMAIN ingest.invalid_rows :
            /\ ~ingest.invalid_rows[k].none
            /\ ingest.invalid_rows[k].fila = Nth(Rejected, k) + 1

\* a sheet whose first row is rejected and whose second row is returned
C19_Witness ==
  /\ ingest.pc = "returned"
  /\ Len(ingest.df) = 2
  /\ Passing = {2}
  /\ ingest.attendees = <<Entry(ingest.df[2])>>
  /\ Len(ingest.invalid_rows) = 1

(***************************************************************************)
(* cli.py, process_attendees: the optional prefetch, then the loop over    *)
(* the attendees.  A row is processed in three steps: the resolution of    *)
(* the attendee's QR, the resolution of the companion's QR and the call of *)
(* generate_badge.  The prefetch_qrs call is run here task after task; its *)
(* interleavings are those of SpecPrefetch.  log keeps, for every row the  *)
(* loop is through with, what each of its steps came to.                   *)
(***************************************************************************)
\* number of attendees handed to process_attendees
MaxAttendees == 2

DOWNLOADQR_WORD == <<"d","o","w","n","l","o","a","d","Q","r">>
HTTP_WORD == <<"h","t","t","p">>

\* utils.GeneratorStats after reset(); errores holds the rows of the errors
NoStats ==
  [filas_procesadas |-> 0, gafetes_titulares |-> 0, gafetes_acompanantes |-> 0,
   filas_omitidas |-> 0, qrs_descargados |-> 0, qrs_cache |-> 0,
   qrs_generados_local |-> 0, errores |-> <<>>]

NoRow == [titular |-> "none", conyugue |-> "none", badge |-> "none", files |-> 0]

\* an entry as read_attendees returns it
Attendee(qr, lleva, qr_conyugue) ==
  [Puesto |-> Str(<<"D">>), PrimerNombre |-> Str(<<"A","n","a">>),
   PrimerApellido |-> Str(<<"P","a","z">>), Oficina |-> Str(<<>>),
   Tour |-> Str(<<"T">>), Mesa |-> Str(<<>>), LLevaConyugue |-> PyBool(lleva),
   PrimerNombreConyugue |-> IF lleva THEN Str(<<"L","u","z">>) ELSE Str(<<>>),
   PrimerApellidoConyugue |-> IF lleva THEN Str(<<"P","a","z">>) ELSE Str(<<>>),
   QR |-> Str(qr), QR_Conyugue |-> Str(qr_conyugue)]

\* the entries of the lists: a bare code, a download URL, and a bare code with
\* a companion whose code cannot be the name of a cache file
Attendees ==
  {e \in {Attendee(IdA, FALSE, <<>>), Attendee(IdUrlA, FALSE, <<>>),
          Attendee(IdA, TRUE, IdSlash)} : validate_row(e, 0).none}

AttendeeLists(n) == UNION {[1..k -> Attendees] : k \in 0..n}

\* caches left behind by earlier runs
ProcCaches ==
  {NoDir, [exists |-> TRUE, files |-> (ValidName(IdA) :> ServerBytes(Url(IdA), 1))]}

\* what the server does during one resolution
ProcRuns == PrefetchRuns

ProcArgs == [qr_strategy : Strategies, allow_fallback : BOOLEAN,
             dry_run : BOOLEAN, prefetch : BOOLEAN]

\* lines 191-196
RECURSIVE AllCodes(_)
AllCodes(attendees) ==
  IF attendees = <<>> THEN <<>>
  ELSE LET entry == Head(attendees)
       IN (IF PyTruthy(entry.QR) THEN <<entry.QR.s>> ELSE <<>>)
          \o (IF PyTruthy(entry.LLevaConyugue) /\ PyTruthy(entry.QR_Conyugue)
              THEN <<entry.QR_Conyugue.s>> ELSE <<>>)
          \o AllCodes(Tail(attendees))

Started(attendees, a) ==
  [pc |-> "start", attendees |-> attendees, args |-> a, all_codes |-> <<>>, k |-> 0,
   idx |-> 0, cur |-> NoRow, stats |-> NoStats, errors |-> 0, log |-> <<>>]

InitProcess ==
  /\ qrs_dir \in ProcCaches
  /\ InitQrs
  /\ parsed = NoParsed
  /\ checked = NoChecked
  /\ ingest = NoIngest
  /\ proc \in {Started(attendees, a) : attendees \in AttendeeLists(MaxAttendees), a \in ProcArgs}
  /\ purge = NoPurge

\* lines 186-198: the list of the codes to prefetch
ProcessStart ==
  /\ proc.pc = "start"
  /\ proc' =
       IF proc.args.prefetch /\ ~proc.args.dry_run /\ AllCodes(proc.attendees) # <<>>
       THEN [proc EXCEPT !.pc = "prefetch", !.all_codes = AllCodes(proc.attendees)]
       ELSE [proc EXCEPT !.pc = "titular"]
  /\ UNCHANGED <<qrs_dir, call, prefetch, parsed, checked, ingest, purge>>

\* lines 199-207: the fetch_single of the next code; what it returns goes to
\* a dictionary of which only the length is logged
PrefetchCode(outs) ==
  /\ proc.pc = "prefetch"
  /\ LET r == get_qr_image(proc.all_codes[proc.k + 1], proc.args.qr_strategy,
                           proc.args.allow_fallback, outs, qrs_dir)
     IN qrs_dir' = r.dir
  /\ proc' = [proc EXCEPT !.k = @ + 1,
                          !.pc = IF proc.k + 1 = Len(proc.all_codes) THEN "titular" ELSE "prefetch"]
  /\ UNCHANGED <<call, prefetch, parsed, checked, ingest, purge>>

\* the loop goes to the next attendee
NextRow(p, row) ==
  [p EXCEPT !.idx = @ + 1, !.pc = "titular", !.cur = NoRow, !.log = Append(@, row)]

\* lines 288-293: the handler of the exceptions of a row
RowFails(p, row) ==
  [NextRow(p, row) EXCEPT !.errors = @ + 1, !.stats.filas_omitidas = @ + 1,
                          !.stats.errores = Append(@, p.idx + 1)]

\* lines 235-240 and 258-263: the counter incremented after a resolution
Counted(stats, qr, dir) ==
  IF Contains(qr, DOWNLOADQR_WORD) \/ StartsWith(qr, HTTP_WORD)
  THEN [stats EXCEPT !.qrs_descargados = @ + 1]
  ELSE IF Exists(dir, qr \o PNG_EXT)
  THEN [stats EXCEPT !.qrs_cache = @ + 1]
  ELSE [stats EXCEPT !.qrs_generados_local = @ + 1]

\* a row that goes to its badge right after the attendee's QR
AfterStep_SkipsCompanion(who) == "badge"

AfterStep(who) == IF who = "titular" THEN "conyugue" ELSE "badge"

\* a handler that goes on with the row whatever allow_fallback says
OnQrError_GoesOn(p, who) ==
  [p EXCEPT !.cur[who] = "raised", !.pc = AfterStep(who)]

\* lines 242-246 and 265-269: the handler of the exceptions of a resolution
OnQrError(p, who) ==
  IF ~p.args.allow_fallback
  THEN RowFails(p, [p.cur EXCEPT ![who] = "raised"])
  ELSE [p EXCEPT !.cur[who] = "raised", !.pc = AfterStep(who)]

\* lines 228-246 and 251-269: one resolution and what follows it
Resolution(p, who, qr, outs, dir) ==
  LET r == get_qr_image(qr, p.args.qr_strategy, p.args.allow_fallback, outs, dir)
  IN [dir |-> r.dir,
      proc |-> IF r.result.kind # "raised"
               THEN [p EXCEPT !.cur[who] = r.result.kind, !.pc = AfterStep(who),
                              !.stats = Counted(p.stats, qr, r.dir)]
               ELSE OnQrError(p, who)]

\* lines 209-246: the start of an iteration and the attendee's QR
ResolveTitular(outs) ==
  /\ proc.pc = "titular"
  /\ proc.idx < Len(proc.attendees)
  /\ LET entry == proc.attendees[proc.idx + 1]
         p == [proc EXCEPT !.stats.filas_procesadas = @ + 1]
         r == Resolution(p, "titular", entry.QR.s, outs, qrs_dir)
     IN IF proc.args.dry_run
        THEN proc' = NextRow(p, NoRow) /\ UNCHANGED qrs_dir
        ELSE IF ~PyTruthy(entry.QR)
        THEN proc' = [p EXCEPT !.pc = "conyugue"] /\ UNCHANGED qrs_dir
        ELSE proc' = r.proc /\ qrs_dir' = r.dir
  /\ UNCHANGED <<call, prefetch, parsed, checked, ingest, purge>>

\* lines 248-269: the companion's QR
ResolveConyugue(outs) ==
  /\ proc.pc = "conyugue"
  /\ LET entry == proc.attendees[proc.idx + 1]
         r == Resolution(proc, "conyugue", entry.QR_Conyugue.s, outs, qrs_dir)
     IN IF PyTruthy(entry.LLevaConyugue) /\ PyTruthy(entry.QR_Conyugue)
        THEN proc' = r.proc /\ qrs_dir' = r.dir
        ELSE proc' = [proc EXCEPT !.pc = "badge"] /\ UNCHANGED qrs_dir
  /\ UNCHANGED <<call, prefetch, parsed, checked, ingest, purge>>

\* lines 271-286 and generator.py 376-447: generate_badge writes the badge
\* of the attendee, then that of a companion with a first name, and may
\* raise before each of the two files; the files it returns are counted
GenerateBadge(outcome) ==
  /\ proc.pc = "badge"
  /\ LET entry == proc.attendees[proc.idx + 1]
         companion == PyTruthy(entry.LLevaConyugue) /\ PyTruthy(entry.PrimerNombreConyugue)
     IN \/ /\ outcome = "written"
           /\ proc' = NextRow([proc EXCEPT !.stats.gafetes_titulares = @ + 1,
                                           !.stats.gafetes_acompanantes =
                                              IF companion THEN @ + 1 ELSE @],
                              [proc.cur EXCEPT !.badge = "generated",
                                               !.files = IF companion THEN 2 ELSE 1])
        \/ /\ outcome = "raises"
           /\ proc' = RowFails(proc, [proc.cur EXCEPT !.badge = "raised"])
        \/ /\ outcome = "raises at the companion's badge"
           /\ companion
           /\ proc' = RowFails(proc, [proc.cur EXCEPT !.badge = "raised", !.files = 1])
  /\ UNCHANGED <<qrs_dir, call, prefetch, parsed, checked, ingest, purge>>

\* line 295
ProcessReturn ==
  /\ proc.pc = "titular"
  /\ proc.idx = Len(proc.attendees)
  /\ proc' = [proc EXCEPT !.pc = "returned"]
  /\ UNCHANGED <<qrs_dir, call, prefetch, parsed, checked, ingest, purge>>

NextProcess ==
  \/ ProcessStart
  \/ \E outs \in ProcRuns : PrefetchCode(outs)
  \/ \E outs \in ProcRuns : ResolveTitular(outs)
  \/ \E outs \in ProcRuns : ResolveConyugue(outs)
  \/ \E outcome \in {"written", "raises", "raises at the companion's badge"} :
       GenerateBadge(outcome)
  \/ ProcessReturn

SpecProcess == InitProcess /\ [][NextProcess]_vars

(***************************************************************************)
(* Vocabulary of the properties: the rows process_attendees is through     *)
(* with.                                                                   *)
(***************************************************************************)
ProcessReturned == proc.pc = "returned"

\* the number of resolutions that gave an image of that provenance
Obtained(kind) ==
  Cardinality({j \in DOMAIN proc.log : proc.log[j].titular = kind})
    + Cardinality({j \in DOMAIN proc.log : proc.log[j].conyugue = kind})

ResolutionFailed(row) == row.titular = "raised" \/ row.conyugue = "raised"

\* C14: at the end of process_attendees the counters qrs_descargados,
\* qrs_cache and qrs_generados_local are the numbers of resolutions whose
\* image came from a download, from the cache and from the local generation.
C14_StatsMatchProvenance ==
  ProcessReturned =>
    /\ proc.stats.qrs_descargados = Obtained("downloaded")
    /\ proc.stats.qrs_cache = Obtained("cache")
    /\ proc.stats.qrs_generados_local = Obtained("generated")

\* C15: with allow_fallback false, a row whose attendee's or companion's QR
\* resolution failed has no badge file, adds one to the skipped rows and one
\* error; the skipped rows are those with a failure, and the loop reaches
\* every attendee.
C15_FailureSkipsOnlyRow ==
  ~proc.args.allow_fallback =>
    /\ \A j \in DOMAIN proc.log :
         ResolutionFailed(proc.log[j]) =>
           /\ proc.log[j].badge = "none"
           /\ proc.log[j].files = 0
           /\ Cardinality({e \in DOMAIN proc.stats.errores : proc.stats.errores[e] = j}) = 1
    /\ proc.stats.filas_omitidas =
         Cardinality({j \in DOMAIN proc.log :
                        ResolutionFailed(proc.log[j]) \/ proc.log[j].badge = "raised"})
    /\ proc.errors = proc.stats.filas_omitidas
    /\ (ProcessReturned /\ ~proc.args.dry_run) =>
         /\ Len(proc.log) = Len(proc.attendees)
         /\ proc.stats.filas_procesadas = Len(proc.attendees)
         /\ \A j \in DOMAIN proc.log : proc.log[j].titular # "none"

\* the first attendee's resolution failed, the second attendee got a badge
C15_Witness ==
  /\ ProcessReturned
  /\ ~proc.args.allow_fallback
  /\ Len(proc.log) = 2
  /\ proc.log[1].titular = "raised"
  /\ proc.log[2].badge = "generated"
  /\ proc.stats.filas_omitidas = 1

(***************************************************************************)
(* clean_cache.  The files of the directory have a modification time and   *)
(* the clock advances between the calls; times are in seconds.  runs keeps *)
(* what every call found and did.                                          *)
(***************************************************************************)
\* number of clean_cache calls, and of advances of the clock
MaxRuns == 2
MaxTicks == 2

\* 24 * 60 * 60
DAY == 24 * 60 * 60

NotesTxt == <<"n",".","t","x","t">>

\* the clock at the start, and the modification times of the files
Now0 == 2 * DAY
MTimes == {0, DAY, Now0}

\* the directories clean_cache is called on: none, or one with some of a
\* valid entry, a fallback entry and a file that is not an image
PurgeNames == {ValidName(IdA), FallbackName(IdA), NotesTxt}

Stored(name) ==
  IF name = ValidName(IdA) THEN ServerBytes(Url(IdA), 1)
  ELSE IF name = FallbackName(IdA) THEN generate_qr_local(IdA)
  ELSE FileBytes(name)

\* Path(qrs_dir).glob("*.png")
Glob(dir) == {n \in DOMAIN dir.files : EndsWith(n, PNG_EXT) /\ Len(n) > Len(PNG_EXT)}

\* lines 259-262: the files older than the threshold
Expired(dir, mtime, current_time, max_age_days) ==
  LET max_age_seconds == max_age_days * 24 * 60 * 60
  IN {n \in Glob(dir) : current_time - mtime[n] > max_age_seconds}

\* a clean_cache that leaves its loop after the first deletion
clean_cache_FirstOnly(dir, mtime, current_time, max_age_days, stuck) ==
  IF ~dir.exists
  THEN [dir |-> dir, deleted |-> 0, removed |-> {}]
  ELSE LET gone == Expired(dir, mtime, current_time, max_age_days) \ stuck
           removed == IF gone = {} THEN {} ELSE {CHOOSE n \in gone : TRUE}
       IN [dir |-> [dir EXCEPT !.files = [n \in DOMAIN dir.files \ removed |-> dir.files[n]]],
           deleted |-> Cardinality(removed), removed |-> removed]

\* a clean_cache that looks at every file of the directory
clean_cache_AnyFile(dir, mtime, current_time, max_age_days, stuck) ==
  IF ~dir.exists
  THEN [dir |-> dir, deleted |-> 0, removed |-> {}]
  ELSE LET removed == {n \in DOMAIN dir.files :
                         current_time - mtime[n] > max_age_days * 24 * 60 * 60} \ stuck
       IN [dir |-> [dir EXCEPT !.files = [n \in DOMAIN dir.files \ removed |-> dir.files[n]]],
           deleted |-> Cardinality(removed), removed |-> removed]

\* lines 252-273; stuck are the files whose unlink raises
clean_cache(dir, mtime, current_time, max_age_days, stuck) ==
  IF ~dir.exists
  THEN [dir |-> dir, deleted |-> 0, removed |-> {}]
  ELSE LET removed == Expired(dir, mtime, current_time, max_age_days) \ stuck
       IN [dir |-> [dir EXCEPT !.files = [n \in DOMAIN dir.files \ removed |-> dir.files[n]]],
           deleted |-> Cardinality(removed), removed |-> removed]

InitCleanCache ==
  /\ InitQrs
  /\ parsed = NoParsed
  /\ checked = NoChecked
  /\ ingest = NoIngest
  /\ proc = NoProc
  /\ \E names \in SUBSET PurgeNames :
       \E mtime \in [names -> MTimes] :
         /\ qrs_dir \in {NoDir, [exists |-> TRUE, files |-> [n \in names |-> Stored(n)]]}
         /\ qrs_dir = NoDir => names = {}
         /\ purge = [now |-> Now0, ticks |-> 0, mtime |-> mtime, runs |-> <<>>]

\* one call of clean_cache
CleanCache(max_age_days, stuck) ==
  /\ Len(purge.runs) < MaxRuns
  /\ stuck \subseteq Expired(qrs_dir, purge.mtime, purge.now, max_age_days)
  /\ LET r == clean_cache(qrs_dir, purge.mtime, purge.now, max_age_days, stuck)
     IN /\ qrs_dir' = r.dir
        /\ purge' = [purge EXCEPT !.runs = Append(@,
                       [max_age_days |-> max_age_days, at |-> purge.now,
                        before |-> DOMAIN qrs_dir.files, removed |-> r.removed,
                        stuck |-> stuck, deleted |-> r.deleted])]
  /\ UNCHANGED <<call, prefetch, parsed, checked, ingest, proc>>

\* time passes between two calls
Tick(seconds) ==
  /\ purge.ticks < MaxTicks
  /\ purge' = [purge EXCEPT !.now = @ + seconds, !.ticks = @ + 1]
  /\ UNCHANGED <<qrs_dir, call, prefetch, parsed, checked, ingest, proc>>

NextCleanCache ==
  \/ \E max_age_days \in {0, 1}, stuck \in SUBSET PurgeNames : CleanCache(max_age_days, stuck)
  \/ \E seconds \in {1, DAY} : Tick(seconds)

SpecCleanCache == InitCleanCache /\ [][NextCleanCache]_vars

(***************************************************************************)
(* Vocabulary of the properties: two calls of clean_cache in succession.   *)
(***************************************************************************)
\* run i and the run after it had the same threshold
SameThreshold(i) ==
  /\ i + 1 \in DOMAIN purge.runs
  /\ purge.runs[i].max_age_days = purge.runs[i + 1].max_age_days

\* file n is older than the threshold of run i at the time of run j
Over(n, i, j) ==
  purge.runs[j].at - purge.mtime[n] > purge.runs[i].max_age_days * DAY

\* every deletion run i attempted succeeded, and no image file it kept came
\* to be older than the threshold by the time of the next run
NothingLeftOrCrossed(i) ==
  /\ purge.runs[i].stuck = {}
  /\ \A n \in purge.runs[i + 1].before :
       (EndsWith(n, PNG_EXT) /\ Over(n, i, i + 1)) => Over(n, i, i)

OldImages(i) ==
  {n \in purge.runs[i].before : EndsWith(n, PNG_EXT) /\ Over(n, i, i)}

\* the files left by the last run, none having been made since
LastRun == Len(purge.runs)

\* C21: clean_cache deletes exactly the image files of both tiers older than
\* the threshold, keeps every other file and returns the number of files it
\* deleted, 0 for a directory that does not exist; with threshold 0 no image
\* file is left.
C21_PurgeSelection ==
  /\ \A i \in DOMAIN purge.runs :
       /\ purge.runs[i].removed = OldImages(i)
       /\ purge.runs[i].deleted = Cardinality(purge.runs[i].removed)
  /\ ~qrs_dir.exists => \A i \in DOMAIN purge.runs : purge.runs[i].deleted = 0
  /\ LastRun > 0 =>
       /\ DOMAIN qrs_dir.files = purge.runs[LastRun].before \ purge.runs[LastRun].removed
       /\ purge.runs[LastRun].max_age_days = 0 => Glob(qrs_dir) = {}

\* C21, amended: clean_cache deletes exactly the image files older than the
\* threshold whose deletion does not fail, keeps every other file and returns
\* the number of files it deleted, 0 for a directory that does not exist;
\* with threshold 0 the image files left are those not modified before the
\* call and those whose deletion failed.
C21_PurgeSelectionUnlinked ==
  /\ \A i \in DOMAIN purge.runs :
       /\ purge.runs[i].removed = OldImages(i) \ purge.runs[i].stuck
       /\ purge.runs[i].deleted = Cardinality(purge.runs[i].removed)
  /\ ~qrs_dir.exists => \A i \in DOMAIN purge.runs : purge.runs[i].deleted = 0
  /\ LastRun > 0 =>
       /\ DOMAIN qrs_dir.files = purge.runs[LastRun].before \ purge.runs[LastRun].removed
       /\ purge.runs[LastRun].max_age_days = 0 =>
            \A n \in Glob(qrs_dir) :
              \/ purge.mtime[n] >= purge.runs[LastRun].at
              \/ n \in purge.runs[LastRun].stuck

\* a run with a threshold of one day on a valid entry two days old, a fallback
\* entry just made and an old file that is not an image: one file deleted
C21_Witness ==
  /\ Len(purge.runs) = 1
  /\ purge.runs[1].max_age_days = 1
  /\ purge.runs[1].before = PurgeNames
  /\ purge.mtime[NotesTxt] = 0
  /\ purge.runs[1].removed = {ValidName(IdA)}
  /\ purge.runs[1].deleted = 1
  /\ DOMAIN qrs_dir.files = {FallbackName(IdA), NotesTxt}

(***************************************************************************)
(* cli.py, main: one run reads the sheet with read_attendees and hands the *)
(* valid entries to process_attendees with fresh statistics; it ends there *)
(* when the sheet cannot be read or has no valid row.                      *)
(***************************************************************************)
\* the rows of the sheets of a run: an attendee alone, a row without QR, an
\* attendee with a companion
RunRows ==
  {r \in RawRows :
     \/ r.QR = Str(IdA) /\ r.LLevaConyugue = NaN /\ r.QR_Conyugue = NaN
     \/ r.QR = NaN /\ r.LLevaConyugue = NaN /\ r.QR_Conyugue = NaN
     \/ r.QR = Str(IdA) /\ r.LLevaConyugue = Str(<<"s","i">>) /\ r.QR_Conyugue = Str(<<"B">>)}

RunSheets ==
  {Called("sheet", REQUIRED_COLUMNS, df) :
     df \in UNION {[1..k -> RunRows] : k \in 0..MaxSheetRows}}
    \cup {Called("sheet", headers, <<>>) : headers \in HeaderLists}
    \cup {Called(file, <<>>, <<>>) : file \in {"missing", "unreadable"}}

InitRun ==
  /\ qrs_dir \in ProcCaches
  /\ InitQrs
  /\ parsed = NoParsed
  /\ checked = NoChecked
  /\ ingest \in RunSheets
  /\ proc \in {[Started(<<>>, a) EXCEPT !.pc = "main"] : a \in ProcArgs}
  /\ purge = NoPurge

\* lines 341-359 and 378-392: what main does with the outcome of
\* read_attendees
MainAfterRead ==
  /\ proc.pc = "main"
  /\ ingest.pc \in {"returned", "raised"}
  /\ proc' = IF ingest.pc = "raised" \/ ingest.attendees = <<>>
             THEN [proc EXCEPT !.pc = "exited"]
             ELSE Started(ingest.attendees, proc.args)
  /\ UNCHANGED <<qrs_dir, call, prefetch, parsed, checked, ingest, purge>>

NextRun ==
  \/ OpenSheet
  \/ IngestRow
  \/ ReturnAttendees
  \/ MainAfterRead
  \/ ProcessStart
  \/ \E outs \in ProcRuns : PrefetchCode(outs)
  \/ \E outs \in ProcRuns : ResolveTitular(outs)
  \/ \E outs \in ProcRuns : ResolveConyugue(outs)
  \/ \E outcome \in {"written", "raises", "raises at the companion's badge"} :
       GenerateBadge(outcome)
  \/ ProcessReturn

SpecRun == InitRun /\ [][NextRun]_vars

(***************************************************************************)
(* Vocabulary of the properties: the end of a run.                         *)
(***************************************************************************)
RunEnded == proc.pc \in {"returned", "exited"}

\* the row ended in the handler of its exceptions
RowSkipped(row) ==
  row.badge = "raised" \/ (row.badge = "none" /\ ResolutionFailed(row))

\* C22: at the end of a run filas_omitidas is the number of rows skipped for
\* a validation failure plus the number of rows skipped for a failure of
\* their generation.
C22_SkippedRows ==
  RunEnded =>
    proc.stats.filas_omitidas =
      Len(ingest.invalid_rows)
        + Cardinality({j \in DOMAIN proc.log : RowSkipped(proc.log[j])})

(***************************************************************************)
(* Vocabulary of the properties: the required columns of a header row.     *)
(***************************************************************************)
\* the header row as the comparison sees it
Normalized == {Upper(Strip(ingest.headers[i])) : i \in DOMAIN ingest.headers}

Absent == {k \in DOMAIN REQUIRED_COLUMNS : Upper(REQUIRED_COLUMNS[k]) \notin Normalized}

\* C23: the header row of a readable file is accepted exactly when each of
\* the 11 required names is in it, compared without case after trimming;
\* otherwise one ValueError lists every missing column, in the order of the
\* required names, and it is raised before any row is validated or returned.
C23_RequiredColumnsGate ==
  (ingest.pc # "idle" /\ ingest.file = "sheet") =>
    LET absent == Absent
    IN /\ Len(REQUIRED_COLUMNS) = 11
       /\ ingest.pc \in {"rows", "returned"} => absent = {}
       /\ ingest.pc = "raised" =>
            /\ absent # {}
            /\ ingest.error = "ValueError"
            /\ Len(ingest.missing) = Cardinality(absent)
            /\ \A k \in absent : \E j \in DOMAIN ingest.missing :
                 /\ ingest.missing[j] = REQUIRED_COLUMNS[k]
                 /\ j = Cardinality({m \in absent : m <= k})
            /\ ingest.idx = 0
            /\ ingest.attendees = <<>>
            /\ ingest.invalid_rows = <<>>
       /\ (ingest.idx > 0 \/ ingest.attendees # <<>> \/ ingest.invalid_rows # <<>>)
            => absent = {}

\* a header row without the first and the last required column is refused
\* with both names
C23_Witness ==
  /\ ingest.pc = "raised"
  /\ ingest.error = "ValueError"
  /\ ingest.headers = SubSeq(REQUIRED_COLUMNS, 2, Len(REQUIRED_COLUMNS) - 1)
  /\ ingest.missing = <<REQUIRED_COLUMNS[1], REQUIRED_COLUMNS[Len(REQUIRED_COLUMNS)]>>

\* C24: a call whose identifier names an existing local file returns the
\* bytes of that file, makes no request to the server and leaves the cache
\* directory as it was (not created, not written, no cache entry returned),
\* under both strategies and both values of allow_fallback.
C24_LocalFileStep ==
  (Ended /\ call.id \in LocalFiles)
    => /\ call.result = Returned("local-file", FileBytes(call.id))
       /\ call.trace = <<>>
       /\ call.met = <<>>
       /\ qrs_dir = call.pre

\* under strategy=cache with no cache directory yet, the directory is still
\* absent after the call
C24_Witness ==
  /\ Ended /\ call.id = IdFile
  /\ call.strategy = "cache" /\ call.allow_fallback
  /\ ~call.pre.exists /\ ~qrs_dir.exists
  /\ call.result.kind = "local-file"

(***************************************************************************)
(* Vocabulary of the properties: the resolutions a row is due.             *)
(***************************************************************************)
TitularDue(entry) == PyTruthy(entry.QR)

ConyugueDue(entry) == PyTruthy(entry.LLevaConyugue) /\ PyTruthy(entry.QR_Conyugue)

\* what has happened to the row of that entry respects the order: the
\* companion's resolution only after the attendee's, the badge only after both
InOrder(entry, row) ==
  /\ row.conyugue # "none" => (TitularDue(entry) => row.titular # "none")
  /\ row.badge # "none" =>
       /\ TitularDue(entry) => row.titular # "none"
       /\ ConyugueDue(entry) => row.conyugue # "none"

\* C25: in the loop of process_attendees the attendee's QR is resolved
\* before the companion's, and both before the badge of the row is
\* generated: when the companion's resolution starts the attendee's has
\* finished, when generate_badge starts both have finished, and no row has a
\* badge without them.
C25_RowOrder ==
  /\ \A j \in DOMAIN proc.log : InOrder(proc.attendees[j], proc.log[j])
  /\ proc.pc \in {"conyugue", "badge"} =>
       LET entry == proc.attendees[proc.idx + 1]
       IN /\ InOrder(entry, proc.cur)
          /\ proc.cur.badge = "none"
          /\ TitularDue(entry) => proc.cur.titular # "none"
          /\ proc.pc = "conyugue" => proc.cur.conyugue = "none"
          /\ (proc.pc = "badge" /\ ConyugueDue(entry)) => proc.cur.conyugue # "none"

\* a row with a companion went through the three steps
C25_Witness ==
  /\ Len(proc.log) >= 1
  /\ ConyugueDue(proc.attendees[1])
  /\ proc.log[1].titular = "downloaded"
  /\ proc.log[1].conyugue = "downloaded"
  /\ proc.log[1].badge = "generated"
  /\ proc.log[1].files = 2

\* C26: no step of get_qr_image or of prefetch_qrs deletes a cache file:
\* every file of the cache directory before a step is a file of it after
\* the step, and the directory itself stays.
C26_NoImplicitPurge ==
  [][/\ DOMAIN qrs_dir.files \subseteq DOMAIN qrs_dir'.files
     /\ qrs_dir.exists => qrs_dir'.exists]_vars

\* a call found files in the cache and left them all there with one more
C26_Witness ==
  /\ Ended
  /\ DOMAIN call.pre.files # {}
  /\ DOMAIN call.pre.files \subseteq DOMAIN qrs_dir.files
  /\ DOMAIN qrs_dir.files # DOMAIN call.pre.files
  /\ Exists(call.pre, FallbackName(Key))
  /\ call.result.kind = "downloaded"

\* the names of the two cache files of an identifier
CacheNames(id) == {ValidName(Codigo(id)), FallbackName(Codigo(id))}

\* C27: under strategy=cache the bytes returned as a cache hit for an
\* identifier were downloaded from the resolution URL of that identifier,
\* and a call writes no cache file of an identifier with another resolution
\* URL.
C27_CacheHitsBelong ==
  /\ (Ended /\ call.strategy = "cache" /\ call.result.kind = "cache")
       => /\ call.result.content.src = "server"
          /\ call.result.content.data = Url(call.id)
  /\ Resolved =>
       \A id \in Idents \ LocalFiles :
         Url(id) # Url(call.id) => Written \cap CacheNames(id) = {}

\* the keys of the identifiers that go past the local-file step
Keys == {Codigo(id) : id \in Idents \ LocalFiles}

\* C28 as stated: the valid-tier name of a key is the fallback-tier name of
\* no other key: a call that generates an image writes the valid-tier file of
\* no other key, and a call that downloads writes the fallback file of no
\* other key.
C28_TiersNeverCollide ==
  Resolved =>
    \A k \in Keys \ {Key} :
      /\ call.result.kind = "generated" => ValidName(k) \notin Written
      /\ call.result.kind = "downloaded" => FallbackName(k) \notin Written

\* C28, amended: the valid-tier name of a key k1 is the fallback-tier name
\* of a key k2 only when k1 is k2 followed by "_local".  A call that
\* generates writes only {key}_local.png and a call that downloads only
\* {key}.png of its own key, so a call writes a file of the other tier of
\* another key only in that case; and a file named ..._local.png is never
\* returned as a cache hit.
C28_TiersCollideOnLocalKeys ==
  /\ \A k1, k2 \in Keys :
       ValidName(k1) = FallbackName(k2) <=> k1 = k2 \o LOCAL_SUFFIX
  /\ Resolved =>
       /\ call.result.kind = "generated" => Written \subseteq {FallbackName(Key)}
       /\ call.result.kind = "downloaded" => Written \subseteq {ValidName(Key)}
       /\ call.result.kind = "cache" => ~EndsWith(ValidName(Key), LOCAL_PNG)
       /\ \A k \in Keys \ {Key} :
            /\ (call.result.kind = "generated" /\ ValidName(k) \in Written)
                 => k = Key \o LOCAL_SUFFIX
            /\ (call.result.kind = "downloaded" /\ FallbackName(k) \in Written)
                 => Key = k \o LOCAL_SUFFIX

\* the download for the key "A_local" replaces the generated image that the
\* key "A" had in A_local.png
C28_Witness ==
  /\ Resolved /\ call.id = IdALocal /\ call.strategy = "cache"
  /\ call.result.kind = "downloaded"
  /\ Exists(call.pre, FallbackName(Codigo(IdA)))
  /\ call.pre.files[FallbackName(Codigo(IdA))] = generate_qr_local(IdA)
  /\ qrs_dir.files[FallbackName(Codigo(IdA))] = call.result.content

\* the task got its image from the server
Downloaded(i) == task[i].bytes.src = "server"

\* the task found the server unreachable
Unreached(i) == task[i].bytes.src = "generated" \/ task[i].result.error = "unreachable"

\* C29: in a prefetch_qrs call with strategy=cache whose tasks all find the
\* server reachable, no two tasks of the same key download, whether they
\* carry the same identifier or not and however the workers interleave.
C29_OneDownloadPerKey ==
  (args.strategy = "cache" /\ \A i \in DOMAIN task : ~Unreached(i))
    => \A i, j \in DOMAIN task :
         (i # j /\ Codigo(task[i].code) = Codigo(task[j].code))
           => ~(Downloaded(i) /\ Downloaded(j))

\* a response with a 2xx status
Is2xx(o) == o.exc = "none" /\ 200 <= o.status /\ o.status < 300

\* C30: a call that received a 2xx response, whatever its body, the empty
\* one included, does not raise the server-unreachable error and does not
\* generate an image; what it returns is the body of that response, as
\* downloaded bytes.
C30_SuccessOn2xx ==
  Resolved =>
    \A i \in DOMAIN call.met :
      Is2xx(call.met[i]) =>
        /\ call.result.error # "unreachable"
        /\ call.result.kind # "generated"
        /\ call.result.kind # "raised" =>
             call.result = Returned("downloaded", Content(Url(call.id), call.met[i]))
====
